---- MODULE Spec2Model ----
(***************************************************************************)
(* Reply delivery of discord-summarize: src/utils/discordUtils.ts.         *)
(*                                                                         *)
(* A text is a sequence of one-character strings.  An embed is a record    *)
(* [title, description, footer, color, timestamp]; an absent field is      *)
(* Undef.  A payload is what a platform send is given: a plain string      *)
(* (kind "string") or { embeds: [...] } (kind "embeds").                   *)
(*                                                                         *)
(* safeReply is an async function: every `await source.xxx(...)` is two    *)
(* steps of the model, the call being issued (a "pending" entry appended   *)
(* to calls) and the promise settling (the entry becomes "ok" or "threw"). *)
(***************************************************************************)
EXTENDS Integers, Sequences, FiniteSets, TLC

VARIABLES
    source,        \* the Message or CommandInteraction replied to
    deferred,      \* source.deferred (interaction only)
    replied,       \* source.replied  (interaction only)
    content,       \* the content argument
    dm,            \* the dm argument
    pc,            \* position of safeReply
    embedBatches,  \* local embedBatches
    i,             \* loop index of the follow-up loop (0-based, as in the code)
    firstReply,    \* local firstReply
    calls,         \* every platform send issued so far, in issue order
    caught,        \* the error caught by the outer catch
    result,        \* what the returned promise resolved with
    escaped,       \* the returned promise rejected
    ran,           \* which of the chunker / batcher this invocation ran
    chunker,       \* a call of splitTextIntoChunks: its arguments, locals and result
    batcher,       \* a call of groupEmbedsIntoBatches: its argument, locals and result
    handler        \* a call of handleSummarizeCommand: its arguments and what it did

replyVars == <<source, deferred, replied, content, dm, pc, embedBatches, i,
               firstReply, calls, caught, result, escaped, ran>>

vars == <<source, deferred, replied, content, dm, pc, embedBatches, i,
          firstReply, calls, caught, result, escaped, ran, chunker, batcher, handler>>

----------------------------------------------------------------------------
(* Program constants *)

DISCORD_EMBED_DESCRIPTION_LIMIT == 4000
DISCORD_TOTAL_MESSAGE_LIMIT == 6000
EMBED_OVERHEAD == 100

DmConfirmation == "Summary sent as a DM."
ErrorPrefix == "Error sending reply: "
DefaultColor == "#0099ff"

----------------------------------------------------------------------------
(* Bounds of the checked inputs *)

MaxUnits == 3        \* most embeds in a content
TitleLen == 5        \* length of a title
FooterLen == 2048    \* length of a long footer
BodyLen == 3000      \* length of a body within the description limit
OverLen == 4100      \* length of a body over the limit, two chunks
LongOverLen == 8200  \* length of a body over the limit, three chunks
HalfLen == 2900      \* length of a body that makes an embed of half the message limit
MaxBatchUnits == 4   \* most embeds given to groupEmbedsIntoBatches
CountMargin == 2     \* counts are tried this far around 1, 100 and 500

----------------------------------------------------------------------------
(* Values *)

Undef == <<"undefined">>
Falsy(t) == t = Undef \/ t = <<>>
\* some of the characters String.prototype.trim strips
Whitespace == {" ", "\n", "\t"}

Max(S) == CHOOSE x \in S : \A y \in S : y <= x
Min2(a, b) == IF a < b THEN a ELSE b

Undefined == [msg |-> 0]
NotReturned == [msg |-> -1]
Handle(n) == [msg |-> n]

Str(s) == [kind |-> "string", text |-> s, embeds |-> <<>>]
Embeds(es) == [kind |-> "embeds", text |-> "", embeds |-> es]

----------------------------------------------------------------------------
(* splitTextIntoChunks *)

\* String.prototype.lastIndexOf(c, from): 0-based, -1 when absent
LastIndexOf(text, c, from) ==
    LET S == {j \in 0..Min2(from, Len(text) - 1) : text[j + 1] = c}
    IN  IF S = {} THEN -1 ELSE Max(S)

SubstringOffByOne(text, from, to) == SubSeq(text, from + 2, to)

\* String.prototype.substring
Substring(text, from, to) == SubSeq(text, from + 1, to)

RECURSIVE TrimStart(_)
TrimStart(text) ==
    IF text # <<>> /\ Head(text) \in Whitespace THEN TrimStart(Tail(text)) ELSE text

RECURSIVE TrimEnd(_)
TrimEnd(text) ==
    IF text # <<>> /\ text[Len(text)] \in Whitespace
    THEN TrimEnd(SubSeq(text, 1, Len(text) - 1))
    ELSE text

\* String.prototype.trim
TrimEndOnly(text) == TrimEnd(text)

TrimNothing(text) == text

\* String.prototype.trim
Trim(text) == TrimEnd(TrimStart(text))

BreakPointPastLimit(remainingText, chunkSize) ==
    LET nl == LastIndexOf(remainingText, "\n", chunkSize)
        bp1 == IF nl = -1 \/ 2 * nl < chunkSize
               THEN LastIndexOf(remainingText, " ", chunkSize)
               ELSE nl
    IN  IF bp1 = -1 THEN chunkSize + 1 ELSE bp1

BreakPointStrictHalf(remainingText, chunkSize) ==
    LET nl == LastIndexOf(remainingText, "\n", chunkSize)
        bp1 == IF nl = -1 \/ 2 * nl <= chunkSize
               THEN LastIndexOf(remainingText, " ", chunkSize)
               ELSE nl
    IN  IF bp1 = -1 THEN chunkSize ELSE bp1

BreakPoint(remainingText, chunkSize) ==
    LET nl == LastIndexOf(remainingText, "\n", chunkSize)
        bp1 == IF nl = -1 \/ 2 * nl < chunkSize
               THEN LastIndexOf(remainingText, " ", chunkSize)
               ELSE nl
    IN  IF bp1 = -1 THEN chunkSize ELSE bp1

RECURSIVE SplitLoop(_, _, _)
SplitLoop(remainingText, chunkSize, chunks) ==
    IF Len(remainingText) = 0 THEN chunks
    ELSE IF Len(remainingText) <= chunkSize THEN Append(chunks, remainingText)
    ELSE LET breakPoint == BreakPoint(remainingText, chunkSize)
         IN  SplitLoop(Trim(Substring(remainingText, breakPoint, Len(remainingText))),
                       chunkSize,
                       Append(chunks, Substring(remainingText, 0, breakPoint)))

splitTextIntoChunks(text, chunkSize) ==
    IF Len(text) <= chunkSize THEN <<text>> ELSE SplitLoop(text, chunkSize, <<>>)

----------------------------------------------------------------------------
(* createMultipleEmbeds, estimateEmbedSize, groupEmbedsIntoBatches *)

createMultipleEmbedsTitleOnAll(title, text, color, footer) ==
    LET chunks == splitTextIntoChunks(text, DISCORD_EMBED_DESCRIPTION_LIMIT)
    IN  [k \in 1..Len(chunks) |->
            [color       |-> color,
             description |-> chunks[k],
             title       |-> title,
             footer      |-> IF k = Len(chunks) /\ footer # Undef THEN footer ELSE Undef,
             timestamp   |-> k = Len(chunks) /\ footer # Undef]]

createMultipleEmbeds(title, text, color, footer) ==
    LET chunks == splitTextIntoChunks(text, DISCORD_EMBED_DESCRIPTION_LIMIT)
    IN  [k \in 1..Len(chunks) |->
            [color       |-> color,
             description |-> chunks[k],
             title       |-> IF k = 1 THEN title ELSE Undef,
             footer      |-> IF k = Len(chunks) /\ footer # Undef THEN footer ELSE Undef,
             timestamp   |-> k = Len(chunks) /\ footer # Undef]]

estimateEmbedSize(embed) ==
      (IF Falsy(embed.title) THEN 0 ELSE Len(embed.title))
    + (IF Falsy(embed.description) THEN 0 ELSE Len(embed.description))
    + (IF Falsy(embed.footer) THEN 0 ELSE Len(embed.footer))
    + EMBED_OVERHEAD

MustCloseEvenIfEmpty(currentBatchSize, embedSize, currentBatch) ==
    currentBatchSize + embedSize > DISCORD_TOTAL_MESSAGE_LIMIT

MustCloseNever(currentBatchSize, embedSize, currentBatch) == FALSE

MustCloseAlways(currentBatchSize, embedSize, currentBatch) == Len(currentBatch) > 0

\* adding this embed would exceed the limit: start a new batch
MustClose(currentBatchSize, embedSize, currentBatch) ==
    /\ currentBatchSize + embedSize > DISCORD_TOTAL_MESSAGE_LIMIT
    /\ Len(currentBatch) > 0

RECURSIVE GroupLoop(_, _, _, _, _)
GroupLoop(embeds, k, batches, currentBatch, currentBatchSize) ==
    IF k > Len(embeds)
    THEN IF Len(currentBatch) > 0 THEN Append(batches, currentBatch) ELSE batches
    ELSE LET embedSize == estimateEmbedSize(embeds[k])
             close == MustClose(currentBatchSize, embedSize, currentBatch)
         IN  IF close
             THEN GroupLoop(embeds, k + 1, Append(batches, currentBatch),
                            <<embeds[k]>>, embedSize)
             ELSE GroupLoop(embeds, k + 1, batches,
                            Append(currentBatch, embeds[k]),
                            currentBatchSize + embedSize)

groupEmbedsIntoBatches(embeds) == GroupLoop(embeds, 1, <<>>, <<>>, 0)

----------------------------------------------------------------------------
(* Inputs *)

Char(p) == IF p % 1000 = 0 THEN " " ELSE IF p % 1500 = 750 THEN "\n" ELSE "a"
Text(n) == [p \in 1..n |-> Char(p)]

Embed(title, description, footer) ==
    [color |-> DefaultColor, description |-> description, title |-> title,
     footer |-> footer, timestamp |-> footer # Undef]

UTitleOnly == Embed(Text(TitleLen), Undef, Undef)
UFooter == Embed(Text(TitleLen), Undef, Text(FooterLen))
UBody == Embed(Text(TitleLen), Text(BodyLen), Text(TitleLen))
UOver == Embed(Text(TitleLen), Text(OverLen), Text(TitleLen))
ULongOver == Embed(Undef, Text(LongOverLen), Undef)

UHalf == Embed(Undef, Text(HalfLen), Undef)

FirstUnits == {UTitleOnly, UFooter, UBody, UOver, ULongOver}
RestUnits == {UFooter, UBody}

\* a plain string longer than both limits (8192 characters)
Twice(s) == s \o s
LongString ==
    Twice(Twice(Twice(Twice(Twice(Twice(Twice(Twice(Twice(Twice(Twice(Twice(Twice("a")))))))))))))

Contents ==
    {Str("No messages found to summarize."), Str(LongString), Embeds(<<>>)}
    \cup {Embeds(<<f>> \o [k \in 1..n |-> r]) :
            f \in FirstUnits, r \in RestUnits, n \in 0..(MaxUnits - 1)}

\* a Message (in a text channel or not; it has no followUp) or a CommandInteraction
Sources ==
    {[kind |-> "Message", textChannel |-> b, followUp |-> FALSE] : b \in BOOLEAN}
    \cup {[kind |-> "Interaction", textChannel |-> FALSE, followUp |-> TRUE]}

ErrorMessages == {"Missing Permissions", "Unknown interaction"}

----------------------------------------------------------------------------
(* safeReply: the decisions *)

IsMessage == source.kind = "Message"

BranchAlwaysSplits(c) ==
    IF c.kind = "string" THEN "string"
    ELSE IF Len(c.embeds) = 0 THEN "empty"
    ELSE IF Falsy(c.embeds[1].description) THEN "nodesc"
    ELSE "oversized"

\* which of the five branches of the try block the content takes
Branch(c) ==
    IF c.kind = "string" THEN "string"
    ELSE IF Len(c.embeds) = 0 THEN "empty"
    ELSE IF Falsy(c.embeds[1].description) THEN "nodesc"
    ELSE IF Len(c.embeds[1].description) > DISCORD_EMBED_DESCRIPTION_LIMIT THEN "oversized"
    ELSE "within"

embedBatchesOfKeepsRest(c) ==
    IF Branch(c) = "oversized"
    THEN LET firstEmbed == c.embeds[1]
         IN  groupEmbedsIntoBatches(
                 createMultipleEmbeds(
                     IF Falsy(firstEmbed.title) THEN <<>> ELSE firstEmbed.title,
                     firstEmbed.description,
                     firstEmbed.color,
                     firstEmbed.footer) \o Tail(c.embeds))
    ELSE groupEmbedsIntoBatches(c.embeds)

\* the embedBatches of the branch
embedBatchesOf(c) ==
    IF Branch(c) = "oversized"
    THEN LET firstEmbed == c.embeds[1]
         IN  groupEmbedsIntoBatches(
                 createMultipleEmbeds(
                     IF Falsy(firstEmbed.title) THEN <<>> ELSE firstEmbed.title,
                     firstEmbed.description,
                     firstEmbed.color,
                     firstEmbed.footer))
    ELSE groupEmbedsIntoBatches(c.embeds)

\* embedBatchesOf, evaluated once for each content of the checked inputs
BatchTable == [c \in Contents |-> embedBatchesOf(c)]
BatchesOf(c) == BatchTable[c]

\* the content is sent as it is, in one send
SentAsIs(c) ==
    \/ Branch(c) \in {"string", "empty"}
    \/ Branch(c) \in {"nodesc", "within"} /\ Len(BatchesOf(c)) = 1

RanOf(c) ==
    CASE Branch(c) \in {"string", "empty"} -> {}
      [] Branch(c) \in {"nodesc", "within"} -> {"batcher"}
      [] OTHER -> {"chunker", "batcher"}

InteractionPrimAlwaysReply(d, r) == "reply"

\* source.deferred || source.replied ? editReply : reply
InteractionPrim(d, r) == IF d \/ r THEN "editReply" ELSE "reply"

\* user = source instanceof Message ? source.author : source.user
DmPrim == IF IsMessage THEN "author.send" ELSE "user.send"

PrimaryPrimChannelSend ==
    IF dm THEN DmPrim
    ELSE IF IsMessage THEN "channel.send"
    ELSE "reply"

\* the primitive of the first send of the try block
PrimaryPrim ==
    IF dm THEN DmPrim
    ELSE IF IsMessage THEN "reply"
    ELSE InteractionPrim(deferred, replied)

SecondaryPrimUnguarded ==
    IF dm THEN DmPrim
    ELSE IF IsMessage /\ source.textChannel THEN "channel.send"
    ELSE "followUp"

SecondaryPrimIgnoresDm ==
    IF IsMessage /\ source.textChannel THEN "channel.send"
    ELSE IF source.followUp THEN "followUp"
    ELSE "skip"

\* the primitive of a batch after the first, "skip" when the source offers none
SecondaryPrim ==
    IF dm THEN DmPrim
    ELSE IF IsMessage /\ source.textChannel THEN "channel.send"
    ELSE IF source.followUp THEN "followUp"
    ELSE "skip"

FallbackPrimUnguarded(r) == "reply"

\* the fallback of the catch block: the primitive, "none" when nothing is sent
FallbackPrim(r) ==
    IF IsMessage THEN "reply"
    ELSE IF ~r THEN "reply"
    ELSE "none"

errorMessage(err) == ErrorPrefix \o err

\* discord.js sets interaction.replied once reply() or editReply() has resolved
RepliedAfter(prim, r) ==
    IF ~IsMessage /\ prim \in {"reply", "editReply"} THEN TRUE ELSE r

Call(prim, payload, site, fallback) ==
    [prim |-> prim, payload |-> payload, site |-> site, fallback |-> fallback,
     status |-> "pending", error |-> ""]

Last == Len(calls)
InFlight == {k \in DOMAIN calls : calls[k].status = "pending"}
Settle(status, err) ==
    [calls EXCEPT ![Last].status = status, ![Last].error = err]

LoopIssueNoAwait(k) == [pc |-> "loop", i |-> k + 1]

\* where the follow-up loop stands after issuing `await send(embedBatches[i])`
LoopIssue(k) == [pc |-> "awaitBatch", i |-> k]

OnThrowSkipsBatch(at, k) ==
    IF at = "awaitBatch" THEN [pc |-> "loop", i |-> k + 1] ELSE [pc |-> "catch", i |-> k]

\* one try block around every send: a send that throws ends it in the catch
OnThrow(at, k) == [pc |-> "catch", i |-> k]

FallbackFailedRethrows == [result |-> NotReturned, escaped |-> TRUE]

\* the inner catch: the failure of the fallback is logged, safeReply returns undefined
FallbackFailed == [result |-> Undefined, escaped |-> FALSE]

\* what safeReply returns after a single send of the content
AsIsResult(h) == IF IsMessage THEN h ELSE Undefined

FirstReplyOfChannelOnly(h) == IF ~dm /\ IsMessage THEN h ELSE Undefined

\* firstReply after the first batch was sent
FirstReplyOf(h) == IF dm \/ IsMessage THEN h ELSE Undefined

NeedsConfirmationAsIsOnly == dm /\ ~IsMessage /\ SentAsIs(content)

\* after the first direct message: if (!(source instanceof Message)) confirm
NeedsConfirmation == dm /\ ~IsMessage

----------------------------------------------------------------------------
(* safeReply: the state machine *)

\* no call of the function is being followed
Idle == [pc |-> "idle"]

Init ==
    /\ chunker = Idle
    /\ batcher = Idle
    /\ handler = Idle
    /\ source \in Sources
    /\ deferred \in BOOLEAN
    /\ replied \in BOOLEAN
    /\ (source.kind = "Message" => ~deferred /\ ~replied)
    /\ content \in Contents
    /\ dm \in BOOLEAN
    /\ pc = "entry"
    /\ embedBatches = <<>>
    /\ i = 0
    /\ firstReply = Undefined
    /\ calls = <<>>
    /\ caught = ""
    /\ result = NotReturned
    /\ escaped = FALSE
    /\ ran = {}

\* string, empty embeds, or a single batch: one send of the content as it is
SendAsIs ==
    /\ pc = "entry"
    /\ SentAsIs(content)
    /\ ran' = RanOf(content)
    /\ calls' = Append(calls, Call(PrimaryPrim, content, "content", FALSE))
    /\ pc' = "awaitAsIs"
    /\ UNCHANGED <<source, deferred, replied, content, dm, embedBatches, i,
                   firstReply, caught, result, escaped>>
    /\ UNCHANGED <<chunker, batcher, handler>>

\* `return await send(content)` / `await send(content)` resolved
AsIsResolves ==
    /\ pc = "awaitAsIs"
    /\ calls' = Settle("ok", "")
    /\ replied' = RepliedAfter(calls[Last].prim, replied)
    /\ IF NeedsConfirmation
       THEN pc' = "confirm" /\ UNCHANGED result
       ELSE pc' = "done" /\ result' = AsIsResult(Handle(Last))
    /\ UNCHANGED <<source, deferred, content, dm, embedBatches, i, firstReply,
                   caught, escaped, ran>>
    /\ UNCHANGED <<chunker, batcher, handler>>

\* several batches, or an oversized first description: the first batch
SendFirstBatch ==
    /\ pc = "entry"
    /\ ~SentAsIs(content)
    /\ ran' = RanOf(content)
    /\ LET batches == BatchesOf(content)
       IN  /\ embedBatches' = batches
           /\ calls' = Append(calls, Call(PrimaryPrim, Embeds(batches[1]), "batch", FALSE))
    /\ pc' = "awaitFirst"
    /\ UNCHANGED <<source, deferred, replied, content, dm, i, firstReply, caught,
                   result, escaped>>
    /\ UNCHANGED <<chunker, batcher, handler>>

FirstBatchResolves ==
    /\ pc = "awaitFirst"
    /\ calls' = Settle("ok", "")
    /\ replied' = RepliedAfter(calls[Last].prim, replied)
    /\ firstReply' = FirstReplyOf(Handle(Last))
    /\ i' = 1
    /\ pc' = IF NeedsConfirmation THEN "confirm" ELSE "loop"
    /\ UNCHANGED <<source, deferred, content, dm, embedBatches, caught, result,
                   escaped, ran>>
    /\ UNCHANGED <<chunker, batcher, handler>>

\* the confirmation in the channel after a direct message, interaction only
SendConfirmation ==
    /\ pc = "confirm"
    /\ calls' = Append(calls, Call(InteractionPrim(deferred, replied),
                                   Str(DmConfirmation), "confirm", FALSE))
    /\ pc' = "awaitConfirm"
    /\ UNCHANGED <<source, deferred, replied, content, dm, embedBatches, i,
                   firstReply, caught, result, escaped, ran>>
    /\ UNCHANGED <<chunker, batcher, handler>>

ConfirmationResolves ==
    /\ pc = "awaitConfirm"
    /\ calls' = Settle("ok", "")
    /\ replied' = RepliedAfter(calls[Last].prim, replied)
    /\ IF SentAsIs(content)
       THEN pc' = "done" /\ result' = Undefined
       ELSE pc' = "loop" /\ UNCHANGED result
    /\ UNCHANGED <<source, deferred, content, dm, embedBatches, i, firstReply,
                   caught, escaped, ran>>
    /\ UNCHANGED <<chunker, batcher, handler>>

\* for (let i = 1; i < embedBatches.length; i++): one more batch
SendNextBatch ==
    /\ pc = "loop"
    /\ i < Len(embedBatches)
    /\ SecondaryPrim # "skip"
    /\ calls' = Append(calls, Call(SecondaryPrim, Embeds(embedBatches[i + 1]), "batch", FALSE))
    /\ pc' = LoopIssue(i).pc
    /\ i' = LoopIssue(i).i
    /\ UNCHANGED <<source, deferred, replied, content, dm, embedBatches, firstReply,
                   caught, result, escaped, ran>>
    /\ UNCHANGED <<chunker, batcher, handler>>

\* neither a text channel nor followUp: the batch is passed over
SkipBatch ==
    /\ pc = "loop"
    /\ i < Len(embedBatches)
    /\ SecondaryPrim = "skip"
    /\ i' = i + 1
    /\ UNCHANGED <<source, deferred, replied, content, dm, pc, embedBatches,
                   firstReply, calls, caught, result, escaped, ran>>
    /\ UNCHANGED <<chunker, batcher, handler>>

NextBatchResolves ==
    /\ pc = "awaitBatch"
    /\ calls' = Settle("ok", "")
    /\ replied' = RepliedAfter(calls[Last].prim, replied)
    /\ i' = i + 1
    /\ pc' = "loop"
    /\ UNCHANGED <<source, deferred, content, dm, embedBatches, firstReply, caught,
                   result, escaped, ran>>
    /\ UNCHANGED <<chunker, batcher, handler>>

\* return firstReply
ReturnFirstReply ==
    /\ pc = "loop"
    /\ i >= Len(embedBatches)
    /\ result' = firstReply
    /\ pc' = "done"
    /\ UNCHANGED <<source, deferred, replied, content, dm, embedBatches, i,
                   firstReply, calls, caught, escaped, ran>>
    /\ UNCHANGED <<chunker, batcher, handler>>

\* a send of the try block threw: the outer catch has the error
SendThrows ==
    /\ pc \in {"awaitAsIs", "awaitFirst", "awaitConfirm", "awaitBatch"}
    /\ \E err \in ErrorMessages :
          /\ calls' = Settle("threw", err)
          /\ caught' = err
    /\ pc' = OnThrow(pc, i).pc
    /\ i' = OnThrow(pc, i).i
    /\ UNCHANGED <<source, deferred, replied, content, dm, embedBatches,
                   firstReply, result, escaped, ran>>
    /\ UNCHANGED <<chunker, batcher, handler>>

\* catch (error): the error message is sent in the channel
SendFallback ==
    /\ pc = "catch"
    /\ FallbackPrim(replied) # "none"
    /\ calls' = Append(calls, Call(FallbackPrim(replied), Str(errorMessage(caught)),
                                   "error", TRUE))
    /\ pc' = "awaitFallback"
    /\ UNCHANGED <<source, deferred, replied, content, dm, embedBatches, i,
                   firstReply, caught, result, escaped, ran>>
    /\ UNCHANGED <<chunker, batcher, handler>>

\* catch (error): an interaction already replied to gets no error message
NoFallback ==
    /\ pc = "catch"
    /\ FallbackPrim(replied) = "none"
    /\ result' = Undefined
    /\ pc' = "done"
    /\ UNCHANGED <<source, deferred, replied, content, dm, embedBatches, i,
                   firstReply, calls, caught, escaped, ran>>
    /\ UNCHANGED <<chunker, batcher, handler>>

FallbackResolves ==
    /\ pc = "awaitFallback"
    /\ calls' = Settle("ok", "")
    /\ replied' = RepliedAfter(calls[Last].prim, replied)
    /\ result' = AsIsResult(Handle(Last))
    /\ pc' = "done"
    /\ UNCHANGED <<source, deferred, content, dm, embedBatches, i, firstReply,
                   caught, escaped, ran>>
    /\ UNCHANGED <<chunker, batcher, handler>>

\* catch (followUpError): logged
FallbackThrows ==
    /\ pc = "awaitFallback"
    /\ \E err \in ErrorMessages : calls' = Settle("threw", err)
    /\ result' = FallbackFailed.result
    /\ escaped' = FallbackFailed.escaped
    /\ pc' = "done"
    /\ UNCHANGED <<source, deferred, replied, content, dm, embedBatches, i,
                   firstReply, caught, ran>>
    /\ UNCHANGED <<chunker, batcher, handler>>

Next ==
    \/ SendAsIs
    \/ AsIsResolves
    \/ SendFirstBatch
    \/ FirstBatchResolves
    \/ SendConfirmation
    \/ ConfirmationResolves
    \/ SendNextBatch
    \/ SkipBatch
    \/ NextBatchResolves
    \/ ReturnFirstReply
    \/ SendThrows
    \/ SendFallback
    \/ NoFallback
    \/ FallbackResolves
    \/ FallbackThrows

Spec == Init /\ [][Next]_vars

\* every awaited send settles and every step of safeReply that can run does
FairSpec == Spec /\ WF_vars(Next)

----------------------------------------------------------------------------
(* safeReply at rest, while another function of the module is followed *)

ReplyIdle ==
    /\ source = [kind |-> "Message", textChannel |-> FALSE, followUp |-> FALSE]
    /\ deferred = FALSE
    /\ replied = FALSE
    /\ content = Embeds(<<>>)
    /\ dm = FALSE
    /\ pc = "idle"
    /\ embedBatches = <<>>
    /\ i = 0
    /\ firstReply = Undefined
    /\ calls = <<>>
    /\ caught = ""
    /\ result = NotReturned
    /\ escaped = FALSE
    /\ ran = {}

----------------------------------------------------------------------------
(* splitTextIntoChunks, statement by statement *)

MaxTextLen == 5      \* longest text given to the chunker
MaxChunkSize == 3    \* largest chunkSize given to the chunker
MaxFairTextLen == 4  \* longest text when termination is checked

Alphabet == {"a", "b", " ", "\n", "\t"}
ChunkTexts == UNION {[1..n -> Alphabet] : n \in 0..MaxTextLen}

NeverFits(text, chunkSize) == FALSE

\* if (text.length <= chunkSize) return [text]
FitsInOneChunk(text, chunkSize) == Len(text) <= chunkSize

\* which of the three break points BreakPoint took
CutKind(remainingText, chunkSize) ==
    LET nl == LastIndexOf(remainingText, "\n", chunkSize)
    IN  IF nl # -1 /\ ~(2 * nl < chunkSize) THEN "newline"
        ELSE IF LastIndexOf(remainingText, " ", chunkSize) # -1 THEN "space"
        ELSE "forced"

ChunkInit ==
    /\ chunker \in [pc : {"call"}, text : ChunkTexts, chunkSize : 1..MaxChunkSize,
                    remainingText : {<<>>}, chunks : {<<>>}, cuts : {<<>>}]
    /\ batcher = Idle
    /\ handler = Idle
    /\ ReplyIdle

\* the text fits: return [text]
ChunkReturnText ==
    /\ chunker.pc = "call"
    /\ FitsInOneChunk(chunker.text, chunker.chunkSize)
    /\ chunker' = [chunker EXCEPT !.pc = "returned", !.chunks = <<chunker.text>>]
    /\ UNCHANGED <<replyVars, batcher, handler>>

\* const chunks = []; let remainingText = text
ChunkEnterLoop ==
    /\ chunker.pc = "call"
    /\ ~FitsInOneChunk(chunker.text, chunker.chunkSize)
    /\ chunker' = [chunker EXCEPT !.pc = "loop", !.remainingText = chunker.text]
    /\ UNCHANGED <<replyVars, batcher, handler>>

\* the remaining text fits in a chunk: push it and break
ChunkPushLast ==
    /\ chunker.pc = "loop"
    /\ Len(chunker.remainingText) > 0
    /\ Len(chunker.remainingText) <= chunker.chunkSize
    /\ chunker' = [chunker EXCEPT !.pc = "returned",
                                  !.chunks = Append(@, chunker.remainingText)]
    /\ UNCHANGED <<replyVars, batcher, handler>>

\* cut at the break point, trim what remains
ChunkCut ==
    /\ chunker.pc = "loop"
    /\ Len(chunker.remainingText) > chunker.chunkSize
    /\ LET r == chunker.remainingText
           breakPoint == BreakPoint(r, chunker.chunkSize)
           rest == Substring(r, breakPoint, Len(r))
       IN  chunker' = [chunker EXCEPT
               !.chunks = Append(@, Substring(r, 0, breakPoint)),
               !.remainingText = Trim(rest),
               !.cuts = Append(@, [kind |-> CutKind(r, chunker.chunkSize),
                                   breakPoint |-> breakPoint,
                                   from |-> r,
                                   trimmedStart |-> Len(rest) - Len(TrimStart(rest)),
                                   trimmedEnd |-> Len(TrimStart(rest)) - Len(Trim(rest))])]
    /\ UNCHANGED <<replyVars, batcher, handler>>

\* while (remainingText.length > 0) is false: return chunks
ChunkLoopEnds ==
    /\ chunker.pc = "loop"
    /\ Len(chunker.remainingText) = 0
    /\ chunker' = [chunker EXCEPT !.pc = "returned"]
    /\ UNCHANGED <<replyVars, batcher, handler>>

ChunkNext ==
    \/ ChunkReturnText
    \/ ChunkEnterLoop
    \/ ChunkPushLast
    \/ ChunkCut
    \/ ChunkLoopEnds

ChunkSpec == ChunkInit /\ [][ChunkNext]_vars

\* the same calls on texts of up to MaxFairTextLen characters; the function
\* runs to its end, no statement waits for anything
ChunkFairInit ==
    /\ chunker \in [pc : {"call"},
                    text : UNION {[1..n -> Alphabet] : n \in 0..MaxFairTextLen},
                    chunkSize : 1..MaxChunkSize,
                    remainingText : {<<>>}, chunks : {<<>>}, cuts : {<<>>}]
    /\ batcher = Idle
    /\ handler = Idle
    /\ ReplyIdle

ChunkFairSpec == ChunkFairInit /\ [][ChunkNext]_vars /\ WF_vars(ChunkNext)

----------------------------------------------------------------------------
(* Vocabulary of the claims *)

Done == pc = "done"
Issued == DOMAIN calls
NoThrow == \A k \in Issued : calls[k].status = "ok"
ReplyOrEdit == {"reply", "editReply"}
InChannel == {"reply", "editReply", "channel.send", "followUp"}
TriState == IF deferred \/ replied THEN "editReply" ELSE "reply"
ContentCalls == {k \in Issued : calls[k].site \in {"content", "batch"}}
BatchCalls == SelectSeq(calls, LAMBDA c : c.site = "batch")

----------------------------------------------------------------------------
(* C1: safeReply never propagates an exception: whatever sends throw, the   *)
(* fallback included, the call goes on until it resolves, and it resolves   *)
(* with undefined or with the handle of a send that succeeded.              *)
C1_Resolved ==
    /\ ~escaped
    /\ Done => \/ result = Undefined
               \/ \E k \in Issued : result = Handle(k) /\ calls[k].status = "ok"

C1_NeverPropagates == []C1_Resolved /\ <>Done

C1_Witness ==
    /\ Done
    /\ result = Undefined
    /\ \E k \in Issued : calls[k].fallback /\ calls[k].status = "threw"

(* C2: whenever a send of the try block threw, exactly one fallback send   *)
(* was attempted, carrying "Error sending reply: " and the error's message, *)
(* through an in-channel reply primitive of the source.                     *)
C2_ExactlyOneFallback ==
    (Done /\ \E k \in Issued : ~calls[k].fallback /\ calls[k].status = "threw")
    => \E k \in Issued :
          /\ {j \in Issued : calls[j].fallback} = {k}
          /\ calls[k].payload = Str(ErrorPrefix \o caught)
          /\ calls[k].prim \in ReplyOrEdit

(* C3: on an interaction the fallback error message is sent with reply     *)
(* only when the interaction is neither deferred nor replied, and with      *)
(* editReply otherwise.                                                     *)
C3_FallbackRespectsTriState ==
    (pc = "awaitFallback" /\ ~IsMessage) => calls[Last].prim = TriState

(* C4 as stated: on an interaction at most one reply / editReply call is   *)
(* issued in one invocation, the fallback included, and reply is not        *)
(* issued once the interaction has been responded to.                       *)
C4_AtMostOneReplyOrEdit ==
    ~IsMessage =>
        /\ Cardinality({k \in Issued : calls[k].prim \in ReplyOrEdit}) <= 1
        /\ \A k \in InFlight : calls[k].prim = "reply" => ~replied

(* C4 amended: on an interaction the try block issues at most one reply /  *)
(* editReply call and the fallback at most one more, a reply issued only    *)
(* after a send threw; reply is only issued while the interaction is not    *)
(* replied, and at most one reply / editReply call succeeds.                *)
C4_AtMostOneSucceeds ==
    ~IsMessage =>
        /\ Cardinality({k \in Issued : calls[k].prim \in ReplyOrEdit /\ ~calls[k].fallback}) <= 1
        /\ Cardinality({k \in Issued : calls[k].fallback}) <= 1
        /\ \A k \in Issued : calls[k].fallback =>
              /\ calls[k].prim = "reply"
              /\ \E j \in 1..(k - 1) : calls[j].status = "threw"
        /\ \A k \in InFlight : calls[k].prim = "reply" => ~replied
        /\ Cardinality({k \in Issued : calls[k].prim \in ReplyOrEdit /\ calls[k].status = "ok"}) <= 1

C4_Witness ==
    /\ ~IsMessage
    /\ Done
    /\ \E j, k \in Issued :
          /\ j < k
          /\ calls[j].prim \in ReplyOrEdit /\ calls[j].status = "threw"
          /\ calls[k].prim = "reply" /\ calls[k].fallback /\ calls[k].status = "ok"

(* C5: in the try block the in-channel send of safeReply to an interaction *)
(* (the content, or the confirmation of a direct message) is editReply if   *)
(* the interaction is deferred or replied and reply only if it is neither.  *)
C5_FirstSendRespectsTriState ==
    ~IsMessage =>
        /\ \A k \in InFlight :
              (~calls[k].fallback /\ calls[k].prim \in ReplyOrEdit) => calls[k].prim = TriState
        /\ (~dm /\ calls # <<>>) => calls[1].prim \in ReplyOrEdit
        /\ \A k \in Issued : calls[k].site = "confirm" => calls[k].prim \in ReplyOrEdit

C5_Witness ==
    /\ ~IsMessage
    /\ deferred
    /\ ~replied
    /\ pc \in {"awaitAsIs", "awaitFirst"}
    /\ calls[Last].prim = "editReply"

(* C6: with dm and an interaction, when no send throws, the confirmation   *)
(* "Summary sent as a DM." is sent exactly once, through reply / editReply, *)
(* after the first direct message has completed.                            *)
C6_ConfirmationOnce ==
    (dm /\ ~IsMessage) =>
        LET conf == {k \in Issued : calls[k].payload = Str(DmConfirmation)}
        IN  /\ Cardinality(conf) <= 1
            /\ \A k \in conf :
                  /\ k = 2
                  /\ calls[k].prim \in ReplyOrEdit
                  /\ calls[1].prim = "user.send"
                  /\ calls[1].status = "ok"
                  /\ calls[1].site \in {"content", "batch"}
            /\ (Done /\ NoThrow) => Cardinality(conf) = 1

C6_Witness ==
    /\ dm
    /\ ~IsMessage
    /\ Done
    /\ NoThrow
    /\ Len(embedBatches) >= 2
    /\ Len(calls) = Len(embedBatches) + 1

(* C7: for an interaction safeReply returns undefined, whatever the        *)
(* content and dm.                                                          *)
C7_InteractionReturnsUndefined ==
    (Done /\ ~IsMessage) => result = Undefined

(* C8: for a Message, when no send throws, safeReply returns the handle of *)
(* the first content send: the author direct message under dm (and then     *)
(* nothing is sent in the channel), the in-channel reply otherwise.         *)
C8_MessageReturnsFirstSend ==
    (IsMessage /\ Done /\ NoThrow) =>
        /\ calls # <<>>
        /\ result = Handle(1)
        /\ 1 \in ContentCalls
        /\ dm => \A k \in Issued : calls[k].prim = "author.send" /\ calls[k].site # "confirm"
        /\ ~dm => calls[1].prim = "reply"

C8_Witness ==
    /\ IsMessage
    /\ dm
    /\ Done
    /\ NoThrow
    /\ Len(calls) >= 2
    /\ result = Handle(1)

(* C9: for plain string content of any length exactly one content send is  *)
(* made, carrying the string unchanged (reply for a Message in channel),    *)
(* and neither the chunker nor the batcher runs.                            *)
C9_StringSentAsIs ==
    content.kind = "string" =>
        /\ ran = {}
        /\ embedBatches = <<>>
        /\ pc # "entry" => ContentCalls = {1}
        /\ \A k \in ContentCalls : calls[k].payload = content
        /\ \A k \in ContentCalls : (IsMessage /\ ~dm) => calls[k].prim = "reply"

C9_Witness ==
    /\ content = Str(LongString)
    /\ IsMessage
    /\ ~dm
    /\ Done
    /\ calls[1].status = "ok"

(* C10: the batches are sent one after another in batch order: batch 0     *)
(* through the primary send, batch i >= 1 only after the send of batch i-1  *)
(* has completed, through the secondary primitive of the path; no two sends *)
(* of one invocation are in flight together.                                *)
C10_BatchesInOrder ==
    /\ Cardinality(InFlight) <= 1
    /\ Len(BatchCalls) <= Len(embedBatches)
    /\ \A j \in 1..Len(BatchCalls) :
          /\ BatchCalls[j].payload = Embeds(embedBatches[j])
          /\ j < Len(BatchCalls) => BatchCalls[j].status = "ok"
          /\ BatchCalls[j].prim =
                IF dm THEN (IF IsMessage THEN "author.send" ELSE "user.send")
                ELSE IF j = 1 THEN (IF IsMessage THEN "reply" ELSE BatchCalls[j].prim)
                ELSE IF IsMessage THEN "channel.send"
                ELSE "followUp"
          /\ (~dm /\ j = 1) => BatchCalls[j].prim \in ReplyOrEdit
    /\ (Done /\ NoThrow /\ (dm \/ ~IsMessage \/ source.textChannel))
          => Len(BatchCalls) = Len(embedBatches)

C10_Witness ==
    /\ Done
    /\ NoThrow
    /\ ~dm
    /\ Len(embedBatches) = 3
    /\ Len(BatchCalls) = 3

(* C11: with dm = false and a Message that has neither a text channel nor *)
(* followUp, every batch after the first is passed over without raising:    *)
(* once the first reply has resolved nothing more is sent, the fallback     *)
(* included, and safeReply returns the first reply.                         *)
C11_NoSecondarySend ==
    (IsMessage /\ ~source.textChannel /\ ~source.followUp /\ ~dm /\ ~SentAsIs(content)) =>
        /\ Len(BatchCalls) <= 1
        /\ (calls # <<>> /\ calls[1].status = "ok") =>
              /\ Len(calls) = 1
              /\ pc \in {"loop", "done"}
              /\ Done => result = Handle(1)

C11_Witness ==
    /\ IsMessage
    /\ ~source.textChannel
    /\ ~dm
    /\ Done
    /\ Len(embedBatches) = 3
    /\ i = 3
    /\ Len(calls) = 1
    /\ result = Handle(1)

(* C12: every outcome is one of three: the user received the complete     *)
(* content, or the "Error sending reply: ..." message, or nothing; and the  *)
(* user received nothing only when the fallback was attempted and threw.    *)
ExpectedSends == IF SentAsIs(content) THEN 1 ELSE Len(BatchesOf(content))
ReceivedAll ==
    Cardinality({k \in ContentCalls : calls[k].status = "ok"}) = ExpectedSends
ReceivedError == \E k \in Issued : calls[k].fallback /\ calls[k].status = "ok"
ReceivedNothing == \A k \in Issued : calls[k].status # "ok"

C12_ThreeOutcomes ==
    Done =>
        /\ ReceivedAll \/ ReceivedError \/ ReceivedNothing
        /\ ReceivedNothing => \E k \in Issued : calls[k].fallback /\ calls[k].status = "threw"

----------------------------------------------------------------------------
(* groupEmbedsIntoBatches, statement by statement *)

BatchUnits == {UTitleOnly, UFooter, UBody, UOver, ULongOver, UHalf}
BatchInputs == UNION {[1..n -> BatchUnits] : n \in 0..MaxBatchUnits}

BatchInit ==
    /\ batcher \in [pc : {"call"}, embeds : BatchInputs, k : {0}, batches : {<<>>},
                    currentBatch : {<<>>}, currentBatchSize : {0}]
    /\ chunker = Idle
    /\ handler = Idle
    /\ ReplyIdle

\* batches = [], currentBatch = [], currentBatchSize = 0
BatchEnterLoop ==
    /\ batcher.pc = "call"
    /\ batcher' = [batcher EXCEPT !.pc = "loop", !.k = 1]
    /\ UNCHANGED <<replyVars, chunker, handler>>

\* one iteration that first pushes the current batch and starts a new one
BatchStartNew ==
    /\ batcher.pc = "loop"
    /\ batcher.k <= Len(batcher.embeds)
    /\ LET embed == batcher.embeds[batcher.k]
           embedSize == estimateEmbedSize(embed)
       IN  /\ MustClose(batcher.currentBatchSize, embedSize, batcher.currentBatch)
           /\ batcher' = [batcher EXCEPT
                  !.batches = Append(@, batcher.currentBatch),
                  !.currentBatch = <<embed>>,
                  !.currentBatchSize = embedSize,
                  !.k = @ + 1]
    /\ UNCHANGED <<replyVars, chunker, handler>>

\* one iteration that adds the embed to the current batch
BatchAdd ==
    /\ batcher.pc = "loop"
    /\ batcher.k <= Len(batcher.embeds)
    /\ LET embed == batcher.embeds[batcher.k]
           embedSize == estimateEmbedSize(embed)
       IN  /\ ~MustClose(batcher.currentBatchSize, embedSize, batcher.currentBatch)
           /\ batcher' = [batcher EXCEPT
                  !.currentBatch = Append(@, embed),
                  !.currentBatchSize = @ + embedSize,
                  !.k = @ + 1]
    /\ UNCHANGED <<replyVars, chunker, handler>>

\* after the loop: the last batch is pushed if it is not empty
BatchReturn ==
    /\ batcher.pc = "loop"
    /\ batcher.k > Len(batcher.embeds)
    /\ batcher' = [batcher EXCEPT
           !.pc = "returned",
           !.batches = IF Len(batcher.currentBatch) > 0
                       THEN Append(@, batcher.currentBatch)
                       ELSE @]
    /\ UNCHANGED <<replyVars, chunker, handler>>

BatchNext ==
    \/ BatchEnterLoop
    \/ BatchStartNew
    \/ BatchAdd
    \/ BatchReturn

BatchSpec == BatchInit /\ [][BatchNext]_vars

----------------------------------------------------------------------------
(* handleSummarizeCommand and fetchMessages, statement by statement *)

defaultMessageCount == 50
MinCount == 1
MaxCount == 500
FetchLimit == 100
DefaultModel == "gemini"
RegisteredModels == {"openai"}

ChannelError == "Cannot access messages in this channel."
CountError == "Error: Count must be between 1 and 500."
NoMessages == "No messages found to summarize."
FetchError == "Failed to fetch messages from the channel."
SummarizeError == "Request timed out"
TypingError == "Missing Access"
SummaryReply == "{ embeds: createMultipleEmbeds('Chat Summary', summary) }"
NotRegistered(model) == "Model \"" \o model \o "\" not registered"
ModelErrorReply(message) == "Error: " \o message \o ". Available models: openai"
OuterErrorReply(message) == "An error occurred: " \o message

\* count is null (not given) or an integer
Null == [null |-> TRUE, n |-> 0]
Given(n) == [null |-> FALSE, n |-> n]
Counts ==
    {Null} \cup
    {Given(n) : n \in ((MinCount - CountMargin)..(MinCount + CountMargin))
                    \cup ((FetchLimit - CountMargin)..(FetchLimit + CountMargin))
                    \cup ((MaxCount - CountMargin)..(MaxCount + CountMargin))}

\* modelName is null (here "") or a name
ModelNames == {"", "openai"}

MessageCountNullOnly(count) == IF count.null THEN defaultMessageCount ELSE count.n

\* count || config.defaultMessageCount
MessageCountOf(count) ==
    IF count.null \/ count.n = 0 THEN defaultMessageCount ELSE count.n

CountInvalid(messageCount) == messageCount < MinCount \/ messageCount > MaxCount

NotReplied(h, text) == h.replies

\* await reply(source, text, dm): safeReply is called and returns
Replied(h, text) == Append(h.replies, [content |-> text, dm |-> h.dm])

RequestLimitAlwaysFull(remaining) == FetchLimit

\* limit: Math.min(remaining, 100)
RequestLimit(remaining) == Min2(remaining, FetchLimit)

HandlerInit ==
    /\ handler \in [pc : {"call"}, source : {"Message", "CommandInteraction"},
                    channel : BOOLEAN, count : Counts, modelName : ModelNames,
                    dm : BOOLEAN, messageCount : {0}, fetchCalls : {0},
                    remaining : {0}, lastId : {0}, allMessages : {0},
                    options : {[limit |-> 0, before |-> 0]}, requests : {0},
                    lastSize : {-1}, overfull : {FALSE},
                    created : {0}, summarized : {0}, replies : {<<>>}]
    /\ chunker = Idle
    /\ batcher = Idle
    /\ ReplyIdle

\* the channel has no messages manager
CannotAccessChannel ==
    /\ handler.pc = "call"
    /\ ~handler.channel
    /\ handler' = [handler EXCEPT !.pc = "returned", !.replies = Replied(handler, ChannelError)]
    /\ UNCHANGED <<replyVars, chunker, batcher>>

RejectCount ==
    /\ handler.pc = "call"
    /\ handler.channel
    /\ LET messageCount == MessageCountOf(handler.count)
       IN  /\ CountInvalid(messageCount)
           /\ handler' = [handler EXCEPT
                  !.pc = "returned",
                  !.messageCount = messageCount,
                  !.replies = Replied(handler, CountError)]
    /\ UNCHANGED <<replyVars, chunker, batcher>>

\* the count is accepted: fetchMessages(channel, messageCount) is entered
CallFetchMessages ==
    /\ handler.pc = "call"
    /\ handler.channel
    /\ LET messageCount == MessageCountOf(handler.count)
       IN  /\ ~CountInvalid(messageCount)
           /\ handler' = [handler EXCEPT
                  !.pc = "fetch",
                  !.messageCount = messageCount,
                  !.fetchCalls = @ + 1,
                  !.remaining = messageCount]
    /\ UNCHANGED <<replyVars, chunker, batcher>>

\* while (remaining > 0): channel.messages.fetch(options) is issued
FetchRequest ==
    /\ handler.pc = "fetch"
    /\ handler.remaining > 0
    /\ handler' = [handler EXCEPT
           !.pc = "page",
           !.options = [limit |-> RequestLimit(handler.remaining),
                        before |-> handler.lastId],
           !.requests = @ + 1]
    /\ UNCHANGED <<replyVars, chunker, batcher>>

\* the request throws: fetchMessages rethrows, the outer catch replies
FetchThrows ==
    /\ handler.pc = "page"
    /\ handler' = [handler EXCEPT
           !.pc = "returned",
           !.replies = Replied(handler, OuterErrorReply(FetchError))]
    /\ UNCHANGED <<replyVars, chunker, batcher>>

\* an empty page: break
PageEmpty ==
    /\ handler.pc = "page"
    /\ handler' = [handler EXCEPT !.pc = "fetched", !.lastSize = 0]
    /\ UNCHANGED <<replyVars, chunker, batcher>>

\* a full page, a page one message short, or one message more than asked for;
\* ids count up from the newest message
PageArrives ==
    /\ handler.pc = "page"
    /\ \E size \in (handler.options.limit - 1)..(handler.options.limit + 1) :
          /\ size >= 1
          /\ handler' = [handler EXCEPT
                 !.pc = "fetch",
                 !.lastSize = size,
                 !.overfull = @ \/ size > handler.options.limit,
                 !.allMessages = @ + size,
                 !.lastId = handler.options.before + size,
                 !.remaining = @ - size]
    /\ UNCHANGED <<replyVars, chunker, batcher>>

FetchLoopEnds ==
    /\ handler.pc = "fetch"
    /\ handler.remaining <= 0
    /\ handler' = [handler EXCEPT !.pc = "fetched"]
    /\ UNCHANGED <<replyVars, chunker, batcher>>

ReplyNoMessages ==
    /\ handler.pc = "fetched"
    /\ handler.allMessages = 0
    /\ handler' = [handler EXCEPT !.pc = "returned", !.replies = Replied(handler, NoMessages)]
    /\ UNCHANGED <<replyVars, chunker, batcher>>

\* ModelFactory.createModel(modelName || 'gemini') throws: the inner catch replies
CreateModelThrows ==
    /\ handler.pc = "fetched"
    /\ handler.allMessages > 0
    /\ LET model == IF handler.modelName = "" THEN DefaultModel ELSE handler.modelName
       IN  /\ model \notin RegisteredModels
           /\ handler' = [handler EXCEPT
                  !.pc = "returned",
                  !.created = @ + 1,
                  !.replies = Replied(handler, ModelErrorReply(NotRegistered(model)))]
    /\ UNCHANGED <<replyVars, chunker, batcher>>

\* the model is created; a Message source shows the typing indicator first
CreateModel ==
    /\ handler.pc = "fetched"
    /\ handler.allMessages > 0
    /\ LET model == IF handler.modelName = "" THEN DefaultModel ELSE handler.modelName
       IN  /\ model \in RegisteredModels
           /\ handler' = [handler EXCEPT
                  !.pc = IF handler.source = "Message" THEN "typing" ELSE "summarizing",
                  !.created = @ + 1,
                  !.summarized = IF handler.source = "Message" THEN @ ELSE @ + 1]
    /\ UNCHANGED <<replyVars, chunker, batcher>>

SendTypingResolves ==
    /\ handler.pc = "typing"
    /\ handler' = [handler EXCEPT !.pc = "summarizing", !.summarized = @ + 1]
    /\ UNCHANGED <<replyVars, chunker, batcher>>

SendTypingThrows ==
    /\ handler.pc = "typing"
    /\ handler' = [handler EXCEPT
           !.pc = "returned",
           !.replies = Replied(handler, ModelErrorReply(TypingError))]
    /\ UNCHANGED <<replyVars, chunker, batcher>>

SummarizeThrows ==
    /\ handler.pc = "summarizing"
    /\ handler' = [handler EXCEPT
           !.pc = "returned",
           !.replies = Replied(handler, ModelErrorReply(SummarizeError))]
    /\ UNCHANGED <<replyVars, chunker, batcher>>

SummarizeResolves ==
    /\ handler.pc = "summarizing"
    /\ handler' = [handler EXCEPT
           !.pc = "returned",
           !.replies = Replied(handler, SummaryReply)]
    /\ UNCHANGED <<replyVars, chunker, batcher>>

HandlerNext ==
    \/ CannotAccessChannel
    \/ RejectCount
    \/ CallFetchMessages
    \/ FetchRequest
    \/ FetchThrows
    \/ PageEmpty
    \/ PageArrives
    \/ FetchLoopEnds
    \/ ReplyNoMessages
    \/ CreateModelThrows
    \/ CreateModel
    \/ SendTypingResolves
    \/ SendTypingThrows
    \/ SummarizeThrows
    \/ SummarizeResolves

HandlerSpec == HandlerInit /\ [][HandlerNext]_vars

\* every awaited call settles and the function runs on to its return
HandlerFairSpec == HandlerSpec /\ WF_vars(HandlerNext)

----------------------------------------------------------------------------
(* Vocabulary of the chunker claims *)

ChunkReturned == chunker.pc = "returned"

RECURSIVE Join(_)
Join(chunks) == IF chunks = <<>> THEN <<>> ELSE Head(chunks) \o Join(Tail(chunks))

\* joined is text with some white space characters deleted, nothing else changed
RECURSIVE DeletesWhitespaceOnly(_, _)
DeletesWhitespaceOnly(joined, text) ==
    IF text = <<>> THEN joined = <<>>
    ELSE \/ /\ joined # <<>>
            /\ Head(joined) = Head(text)
            /\ DeletesWhitespaceOnly(Tail(joined), Tail(text))
         \/ /\ Head(text) \in Whitespace
            /\ DeletesWhitespaceOnly(joined, Tail(text))

RECURSIVE SumTrimmed(_)
SumTrimmed(cuts) ==
    IF cuts = <<>> THEN 0
    ELSE Head(cuts).trimmedStart + Head(cuts).trimmedEnd + SumTrimmed(Tail(cuts))

(* C13: a text no longer than the limit comes back as the one chunk [text], *)
(* unchanged: the empty text gives [""], a text of exactly limit characters  *)
(* is not split.                                                             *)
C13_ShortTextOneChunk ==
    (ChunkReturned /\ Len(chunker.text) <= chunker.chunkSize) =>
        /\ chunker.chunks = <<chunker.text>>
        /\ chunker.cuts = <<>>

C13_Witness ==
    /\ ChunkReturned
    /\ chunker.text = <<>>
    /\ chunker.chunks = << <<>> >>

(* C14: every chunk has at most limit characters, whether it was cut at a  *)
(* newline, at a space or by a forced break.                                *)
C14_ChunkWithinLimit ==
    chunker.pc # "idle" =>
        \A k \in DOMAIN chunker.chunks : Len(chunker.chunks[k]) <= chunker.chunkSize

C14_Witness ==
    /\ ChunkReturned
    /\ \E k \in DOMAIN chunker.cuts : chunker.cuts[k].kind = "newline"
    /\ \E k \in DOMAIN chunker.cuts : chunker.cuts[k].kind = "forced"
    /\ \E k \in DOMAIN chunker.chunks : Len(chunker.chunks[k]) = chunker.chunkSize

(* C15: no chunk is the empty string, except the single chunk of the empty *)
(* text.                                                                    *)
C15_NoEmptyChunk ==
    chunker.pc # "idle" =>
        \A k \in DOMAIN chunker.chunks : chunker.chunks[k] = <<>> => chunker.text = <<>>

(* C16 as stated: the joined chunks are the text less white space trimmed  *)
(* at newline and space cuts, nothing duplicated or reordered, and a forced *)
(* split loses no character at all.                                         *)
C16_ForcedSplitLosesNothing ==
    (ChunkReturned /\ chunker.cuts # <<>>) =>
        /\ DeletesWhitespaceOnly(Join(chunker.chunks), chunker.text)
        /\ \A k \in DOMAIN chunker.cuts :
              chunker.cuts[k].kind = "forced" =>
                  chunker.cuts[k].trimmedStart + chunker.cuts[k].trimmedEnd = 0

(* C16 amended: the joined chunks are the text with only white space       *)
(* deleted, exactly the white space trimmed from either end of the          *)
(* remainder after each cut, forced cuts included; no other character is    *)
(* lost, nothing is duplicated or reordered, and the chunk of a forced cut  *)
(* is the first limit characters of the remainder.                          *)
C16_JoinDeletesWhitespaceOnly ==
    (ChunkReturned /\ chunker.cuts # <<>>) =>
        /\ DeletesWhitespaceOnly(Join(chunker.chunks), chunker.text)
        /\ Len(Join(chunker.chunks)) + SumTrimmed(chunker.cuts) = Len(chunker.text)
        /\ \A k \in DOMAIN chunker.cuts :
              chunker.cuts[k].kind = "forced" =>
                  Len(chunker.chunks[k]) = chunker.chunkSize

C16_Witness ==
    /\ ChunkReturned
    /\ Len(chunker.cuts) = 2
    /\ chunker.cuts[1].kind = "forced"
    /\ chunker.cuts[1].trimmedStart = 1
    /\ chunker.cuts[1].trimmedEnd = 1
    /\ chunker.cuts[2].kind = "forced"

----------------------------------------------------------------------------
(* Vocabulary of the batcher claims *)

BatchReturned == batcher.pc = "returned"

RECURSIVE Concat(_)
Concat(batches) == IF batches = <<>> THEN <<>> ELSE Head(batches) \o Concat(Tail(batches))

RECURSIVE BatchSize(_)
BatchSize(batch) ==
    IF batch = <<>> THEN 0 ELSE estimateEmbedSize(Head(batch)) + BatchSize(Tail(batch))

Oversized(embed) == estimateEmbedSize(embed) > DISCORD_TOTAL_MESSAGE_LIMIT

\* a group a partition may contain: within the limit, or one oversized unit
GroupAllowed(batch) ==
    /\ batch # <<>>
    /\ \/ BatchSize(batch) <= DISCORD_TOTAL_MESSAGE_LIMIT
       \/ Len(batch) = 1 /\ Oversized(batch[1])

\* the groups of embeds cut after the positions of cutsAfter
GroupsOf(embeds, cutsAfter) ==
    LET ends == cutsAfter \cup {Len(embeds)}
        start(e) == IF \E c \in cutsAfter : c < e
                    THEN Max({c \in cutsAfter : c < e}) + 1
                    ELSE 1
    IN  {SubSeq(embeds, start(e), e) : e \in ends}

C18_OverLimitOnlyWhenAlone ==
    BatchReturned =>
        \A b \in DOMAIN batcher.batches :
            LET batch == batcher.batches[b]
            IN  /\ BatchSize(batch) > DISCORD_TOTAL_MESSAGE_LIMIT =>
                      Len(batch) = 1 /\ Oversized(batch[1])
                /\ (\E u \in DOMAIN batch : Oversized(batch[u])) => Len(batch) = 1

C18_Witness ==
    /\ BatchReturned
    /\ Len(batcher.batches) = 3
    /\ Len(batcher.batches[1]) = 2
    /\ Len(batcher.batches[2]) = 1
    /\ Oversized(batcher.batches[2][1])
    /\ Len(batcher.batches[3]) = 1

(* C19: no partition of the input into consecutive non-empty groups that   *)
(* each stay within the limit or are one oversized unit has fewer groups    *)
(* than the batches returned.                                               *)
C19_MinimumBatches ==
    (BatchReturned /\ batcher.embeds # <<>>) =>
        \A cutsAfter \in SUBSET (1..(Len(batcher.embeds) - 1)) :
            (\A g \in GroupsOf(batcher.embeds, cutsAfter) : GroupAllowed(g)) =>
                Cardinality(cutsAfter) + 1 >= Len(batcher.batches)

C19_Witness ==
    /\ BatchReturned
    /\ Len(batcher.embeds) = 4
    /\ Len(batcher.batches) = 2
    /\ BatchSize(batcher.batches[1]) = DISCORD_TOTAL_MESSAGE_LIMIT
    /\ ~GroupAllowed(batcher.embeds)

----------------------------------------------------------------------------
(* Claims about handleSummarizeCommand *)

HandlerReturned == handler.pc = "returned"

(* C20: for each integer count below 1 or above 500 (in a channel whose    *)
(* messages can be read) the only reply is "Error: Count must be between 1  *)
(* and 500.", no message is fetched and no model is created or called.      *)
C20_OutOfRangeCountRejected ==
    (/\ handler.pc # "idle"
     /\ handler.pc # "call"
     /\ handler.channel
     /\ ~handler.count.null
     /\ (handler.count.n < MinCount \/ handler.count.n > MaxCount)) =>
        /\ HandlerReturned
        /\ handler.replies = <<[content |-> CountError, dm |-> handler.dm]>>
        /\ handler.fetchCalls = 0
        /\ handler.requests = 0
        /\ handler.created = 0
        /\ handler.summarized = 0

----------------------------------------------------------------------------
(* Further claims about splitTextIntoChunks *)

\* the offsets 0..chunkSize of remainingText that hold the character c
OffsetsOf(remainingText, c, chunkSize) ==
    {j \in 0..chunkSize : j < Len(remainingText) /\ remainingText[j + 1] = c}

\* the cut offset the precedence rule of C21 asks for
ExpectedCut(remainingText, chunkSize) ==
    LET newlines == OffsetsOf(remainingText, "\n", chunkSize)
        spaces == OffsetsOf(remainingText, " ", chunkSize)
    IN  IF newlines # {} /\ 2 * Max(newlines) >= chunkSize THEN Max(newlines)
        ELSE IF spaces # {} THEN Max(spaces)
        ELSE chunkSize

(* C21: a remaining text longer than the limit is cut at the last newline  *)
(* at an offset <= limit when that offset is at least limit/2 (limit/2      *)
(* itself qualifies), otherwise at the last space at an offset <= limit,    *)
(* however early, otherwise at exactly limit.                               *)
C21_CutPrecedence ==
    chunker.pc # "idle" =>
        \A k \in DOMAIN chunker.cuts :
            /\ Len(chunker.cuts[k].from) > chunker.chunkSize
            /\ chunker.cuts[k].breakPoint =
                  ExpectedCut(chunker.cuts[k].from, chunker.chunkSize)

C21_Witness ==
    /\ ChunkReturned
    /\ \E k \in DOMAIN chunker.cuts :
          /\ chunker.cuts[k].kind = "newline"
          /\ 2 * chunker.cuts[k].breakPoint = chunker.chunkSize
          /\ OffsetsOf(chunker.cuts[k].from, " ", chunker.chunkSize) # {}
          /\ Max(OffsetsOf(chunker.cuts[k].from, " ", chunker.chunkSize))
                > chunker.cuts[k].breakPoint

EachCutShortens ==
    \A k \in DOMAIN chunker.cuts :
        LET after == IF k < Len(chunker.cuts)
                     THEN chunker.cuts[k + 1].from
                     ELSE chunker.remainingText
        IN  Len(after) < Len(chunker.cuts[k].from)

(* C23: splitTextIntoChunks terminates for every text and positive limit:  *)
(* each iteration leaves a strictly shorter remaining text, also when the   *)
(* cut offset is 0, and the call returns.                                   *)
C23_Terminates ==
    /\ [](chunker.pc # "idle" => EachCutShortens)
    /\ <>ChunkReturned

C23_Witness ==
    /\ ChunkReturned
    /\ Len(chunker.cuts) = 2
    /\ chunker.cuts[1].breakPoint = 0
    /\ chunker.cuts[1].trimmedStart = 1

----------------------------------------------------------------------------
(* Further claims about safeReply *)

\* the content is a non-empty unit set
HasUnits == content.kind = "embeds" /\ Len(content.embeds) > 0
FirstBody == content.embeds[1].description
FirstBodyOver ==
    HasUnits /\ ~Falsy(FirstBody) /\ Len(FirstBody) > DISCORD_EMBED_DESCRIPTION_LIMIT
FirstBodyWithin == HasUnits /\ ~FirstBodyOver

\* every batch after the first has a primitive to go through
SecondaryAvailable == dm \/ ~IsMessage \/ source.textChannel

\* the units of the content sends, send after send
SentGroups ==
    LET sends == SelectSeq(calls, LAMBDA c : c.site \in {"content", "batch"})
    IN  [j \in 1..Len(sends) |-> sends[j].payload.embeds]
SentUnits == Concat(SentGroups)
EverSent ==
    UNION {{calls[k].payload.embeds[u] : u \in DOMAIN calls[k].payload.embeds} :
              k \in Issued}

\* the chunks of the first unit's body, for each content of the checked inputs
BodyChunks ==
    [c \in {c \in Contents : c.kind = "embeds" /\ Len(c.embeds) > 0 /\
                             ~Falsy(c.embeds[1].description)} |->
        splitTextIntoChunks(c.embeds[1].description, DISCORD_EMBED_DESCRIPTION_LIMIT)]

C25_OriginalUnitsSent ==
    FirstBodyWithin =>
        /\ "chunker" \notin ran
        /\ \A k \in DOMAIN SentUnits : SentUnits[k] = content.embeds[k]
        /\ (Done /\ NoThrow /\ SecondaryAvailable) =>
              SentGroups = groupEmbedsIntoBatches(content.embeds)

C25_Witness ==
    /\ FirstBodyWithin
    /\ ~Falsy(FirstBody)
    /\ Done
    /\ NoThrow
    /\ Len(SentGroups) = 2
    /\ Len(SentUnits) = 3

(* C26: once a send of the try block has thrown, a batch send included, no  *)
(* later batch and no confirmation is sent: the only call that can follow   *)
(* is the one fallback error message.                                        *)
C26_NothingAfterThrow ==
    \A k \in Issued :
        calls[k].status = "threw" =>
            \A m \in Issued :
                m > k =>
                    /\ m = k + 1
                    /\ calls[m].fallback
                    /\ calls[m].site = "error"
                    /\ calls[m].payload = Str(errorMessage(calls[k].error))

C26_Witness ==
    /\ Done
    /\ Len(embedBatches) = 3
    /\ Len(calls) = 3
    /\ calls[1].status = "ok"
    /\ calls[2].site = "batch"
    /\ calls[2].status = "threw"
    /\ calls[3].fallback
    /\ calls[3].status = "ok"

(* C27: with dm = true no content, string or batch, goes through reply,     *)
(* editReply, channel.send or followUp, whatever the branch and whatever     *)
(* throws: the only calls in the channel are the confirmation "Summary sent  *)
(* as a DM." and the "Error sending reply: ..." fallback.                    *)
C27_DmContentNeverInChannel ==
    dm =>
        \A k \in Issued :
            /\ calls[k].site \in {"content", "batch"} => calls[k].prim \notin InChannel
            /\ calls[k].prim \in InChannel =>
                  \/ /\ calls[k].site = "confirm"
                     /\ calls[k].payload = Str(DmConfirmation)
                  \/ /\ calls[k].site = "error"
                     /\ calls[k].payload = Str(errorMessage(caught))

C27_Witness ==
    /\ dm
    /\ ~IsMessage
    /\ Done
    /\ NoThrow
    /\ Len(BatchCalls) = 3
    /\ \E k \in Issued : calls[k].site = "confirm"

(* C28: when the body of the first unit is over 4000 characters and the     *)
(* content holds more units, every unit sent is rebuilt from the first       *)
(* unit's body: the units after the first are in no send.                    *)
C28_LaterUnitsDropped ==
    (FirstBodyOver /\ Len(content.embeds) > 1) =>
        /\ \A u \in 2..Len(content.embeds) : content.embeds[u] \notin EverSent
        /\ \A e \in EverSent :
              \E k \in DOMAIN BodyChunks[content] :
                  e.description = BodyChunks[content][k]

C28_Witness ==
    /\ FirstBodyOver
    /\ Len(content.embeds) = 3
    /\ Done
    /\ NoThrow
    /\ SecondaryAvailable
    /\ Len(SentUnits) = 2

----------------------------------------------------------------------------
(* Further claims about handleSummarizeCommand and fetchMessages *)

(* C29: every invocation of handleSummarizeCommand calls safeReply exactly *)
(* once, whichever step ends it: nothing is replied before the step that    *)
(* ends the call, and one reply has been made when it returns.              *)
C29_OneReplyPerInvocation ==
    handler.pc # "idle" =>
        Len(handler.replies) = IF HandlerReturned THEN 1 ELSE 0

C29_Witness ==
    /\ HandlerReturned
    /\ handler.source = "Message"
    /\ handler.requests = 2
    /\ handler.summarized = 1
    /\ handler.replies = <<[content |-> SummaryReply, dm |-> handler.dm]>>

InFetchMessages == handler.pc \in {"fetch", "page"}

\* what holds at every request, page and exit of the loop of fetchMessages
FetchLoopRules ==
    /\ handler.fetchCalls > 0 =>
          /\ handler.messageCount >= MinCount
          /\ handler.messageCount <= MaxCount
    /\ handler.pc = "page" =>
          /\ handler.remaining > 0
          /\ handler.options.limit = Min2(handler.remaining, FetchLimit)
          /\ handler.requests = 1 =>
                /\ handler.options.limit = Min2(handler.messageCount, FetchLimit)
                /\ handler.options.before = 0
          /\ handler.requests > 1 =>
                /\ handler.options.before = handler.allMessages
                /\ handler.options.before > 0
    /\ (handler.pc = "fetch" /\ handler.requests > 0) => handler.lastSize > 0
    /\ handler.pc = "fetched" => (handler.lastSize = 0 \/ handler.remaining <= 0)
    /\ (handler.fetchCalls > 0 /\ ~handler.overfull) =>
          /\ handler.allMessages <= handler.messageCount
          /\ handler.remaining >= 0

(* C30: fetchMessages with a count from 1 to 500 terminates; every request *)
(* asks for min(remaining, 100) messages, every request after the first      *)
(* passes the id of the last message of the page before, the loop ends at    *)
(* the first empty page or when remaining <= 0, and at most count messages   *)
(* are collected if no page is larger than asked for.                        *)
C30_FetchTerminates ==
    /\ [](handler.pc # "idle" => FetchLoopRules)
    /\ InFetchMessages ~> ~InFetchMessages

C30_Witness ==
    /\ handler.pc = "fetched"
    /\ handler.messageCount = MaxCount
    /\ ~handler.overfull
    /\ handler.allMessages = MaxCount
    /\ handler.requests = 6

====
